---- MODULE Spec2Model ----
(***************************************************************************)
(* Continuous barcode scanning of a sample-holder puck (dls_barcode).      *)
(*                                                                         *)
(* Two implementations of the capture/scan pipeline live in the            *)
(* repository: camera/camera_scanner.py (CameraScanner, with kill()) and    *)
(* continuous.py (ContinuousScan).  The variable impl records which of the  *)
(* two a run executes; every queue, worker position and local variable of   *)
(* the workers is a variable of the model.  plate/slot.py is translated     *)
(* operator by operator.  The frame scanner (scan_next_frame, ScanImage,    *)
(* ScanImageContinuous, the plate's comparison and completeness tests) is   *)
(* not part of the source tree and is modelled from the design document.    *)
(*                                                                         *)
(* Time is a discrete clock.  One tick is 1/TicksPerInterval of the         *)
(* sampling interval INTERVAL = 1/MAX_SAMPLE_RATE seconds.                  *)
(***************************************************************************)
EXTENDS Integers, Sequences, FiniteSets, TLC

(***************************************************************************)
(* Bounds of the model.                                                    *)
(***************************************************************************)
\* number of pin slots of the plate type
NumSlots == 2
\* number of single ticks the clock advances by in a run
MaxTicks == 2
\* number of long steps (each longer than the no-plate grace period)
MaxLongTicks == 1
\* clock resolution: ticks per sampling interval
TicksPerInterval == 1
\* barcode contents the decoder can return (within a session a slot never
\* changes its data, so one content exercises every transition)
Data == {"A"}

(***************************************************************************)
(* Program constants.                                                      *)
(***************************************************************************)
Q_LIMIT == 1
NO_PUCK_TIME == 2
MAX_SAMPLE_RATE == 10
\* INTERVAL = 1.0 / MAX_SAMPLE_RATE seconds, in ticks
INTERVAL == TicksPerInterval
\* NO_PUCK_TIME seconds, in ticks
NoPuckTicks == NO_PUCK_TIME * MAX_SAMPLE_RATE * TicksPerInterval
SCANNED_TAG == "Scan Complete"
EMPTY_SLOT_SYMBOL == "----EMPTY----"
NOT_FOUND_SLOT_SYMBOL == "-CANT-FIND-"
NO_RESULT == 0
EMPTY == 1
UNREADABLE == 2
VALID == 3

\* Python's None: an absent barcode, an absent plate, a failed camera read and
\* the queue sentinel are all this one value.
None == [none |-> TRUE]

(***************************************************************************)
(* Barcode objects held by a slot.  The Barcode class is outside the       *)
(* source tree; a slot only calls is_unreadable(), is_valid() and data().  *)
(***************************************************************************)
ValidBarcode(d) == [is_unreadable |-> FALSE, is_valid |-> TRUE, data |-> d]
UnreadableBarcode == [is_unreadable |-> TRUE, is_valid |-> FALSE, data |-> ""]
Barcodes == {ValidBarcode(d) : d \in Data} \cup {UnreadableBarcode}

(***************************************************************************)
(* plate/slot.py: class Slot.                                              *)
(***************************************************************************)
Slot(number) ==
    [number |-> number, bounds |-> None, barcode_position |-> None,
     barcode |-> None, empty |-> FALSE,
     total_frames |-> 0, barcode_set_this_frame |-> FALSE]

new_frame_clears(s) ==
    [s EXCEPT !.total_frames = @ + 1, !.barcode_set_this_frame = FALSE,
              !.barcode = None]

new_frame(s) ==
    [s EXCEPT !.total_frames = @ + 1, !.barcode_set_this_frame = FALSE]

barcode_this_frame(s) == s.barcode_set_this_frame

set_bounds(s, bounds) == [s EXCEPT !.bounds = bounds]

set_barcode_position(s, coord) == [s EXCEPT !.barcode_position = coord]

\* the flag set whatever the argument
set_barcode_always_flags(s, barcode) ==
    IF barcode # None
    THEN [s EXCEPT !.barcode = barcode, !.empty = FALSE,
                   !.barcode_set_this_frame = TRUE]
    ELSE [s EXCEPT !.barcode = barcode, !.barcode_set_this_frame = TRUE]

set_barcode(s, barcode) ==
    IF barcode # None
    THEN [s EXCEPT !.barcode = barcode, !.empty = FALSE,
                   !.barcode_set_this_frame = TRUE]
    ELSE [s EXCEPT !.barcode = barcode]

set_empty_keeps_barcode(s) == [s EXCEPT !.empty = TRUE]

set_empty(s) == [s EXCEPT !.barcode = None, !.empty = TRUE]

set_no_result(s) == [s EXCEPT !.barcode = None, !.empty = FALSE]

state_without_empty_test(s) ==
    IF s.barcode # None /\ s.barcode.is_unreadable THEN UNREADABLE
    ELSE IF s.barcode # None /\ s.barcode.is_valid THEN VALID
    ELSE NO_RESULT

state(s) ==
    IF s.empty THEN EMPTY
    ELSE IF s.barcode # None /\ s.barcode.is_unreadable THEN UNREADABLE
    ELSE IF s.barcode # None /\ s.barcode.is_valid THEN VALID
    ELSE NO_RESULT

contains_barcode(s) == state(s) = UNREADABLE \/ state(s) = VALID

barcode_data(s) ==
    IF s.empty THEN EMPTY_SLOT_SYMBOL
    ELSE IF s.barcode # None THEN s.barcode.data
    ELSE NOT_FOUND_SLOT_SYMBOL

(***************************************************************************)
(* The frame merge engine (design document, section 4.2) and the plate     *)
(* snapshot (section 3).  A plate is a record of its alignment flag and    *)
(* the sequence of its slots.                                              *)
(***************************************************************************)
SlotIndices == 1..NumSlots
\* what the decode capability can return for one slot region
DecodeOutcomes == Data \cup {"Unreadable", "Empty", "NoResult"}
Region == [center |-> "xy", radius |-> "r"]

\* a fresh plate with one slot per index of D
NewPlateOn(D) == [scan_ok |-> TRUE, slots |-> [i \in D |-> Slot(i)]]
NewPlate == NewPlateOn(SlotIndices)

\* steps 4: apply one decode outcome through the slot's setters
ApplyDecode(s, o) ==
    IF o = "Unreadable" THEN set_barcode(s, UnreadableBarcode)
    ELSE IF o = "Empty" THEN set_empty(s)
    ELSE IF o = "NoResult" THEN set_no_result(s)
    ELSE set_barcode(s, ValidBarcode(o))

\* steps 1-2: new_frame() and set_bounds() on every slot
StartFrame(p) ==
    [p EXCEPT !.slots = [i \in DOMAIN p.slots |-> set_bounds(new_frame(p.slots[i]), Region)]]

\* step 3, the skip-decode policy: the slots the decode capability is invoked for
NeedsDecode(p) == {i \in DOMAIN p.slots : state(p.slots[i]) # VALID}

\* steps 1-5 for a frame whose geometry aligned; dec gives the decoder's answers
MergeFrame(p, dec) ==
    LET q == StartFrame(p)
    IN  [q EXCEPT !.slots = [i \in DOMAIN q.slots |->
                                IF i \in NeedsDecode(q)
                                THEN ApplyDecode(q.slots[i], dec[i])
                                ELSE q.slots[i]]]

num_valid_barcodes(p) == Cardinality({i \in DOMAIN p.slots : state(p.slots[i]) = VALID})
FullyResolved(p) == \A i \in DOMAIN p.slots : state(p.slots[i]) # NO_RESULT
is_full_valid(p) == \A i \in DOMAIN p.slots : state(p.slots[i]) = VALID
\* anyNewBarcodes: a slot turned Valid with its per-frame flag set
AnyNewBarcodes(p) ==
    \E i \in DOMAIN p.slots : state(p.slots[i]) = VALID /\ barcode_this_frame(p.slots[i])
\* a barcode was set on some slot during this frame
FrameContainsBarcodes(p) == \E i \in DOMAIN p.slots : barcode_this_frame(p.slots[i])

\* section 4.3: every Valid slot of the candidate c has identical data at the
\* same index of the remembered plate r
has_slots_in_common(r, c) ==
    \A i \in DOMAIN c.slots :
        state(c.slots[i]) = VALID =>
            barcode_data(r.slots[i]) = barcode_data(c.slots[i])

\* the index-aligned tuple of slot results of a plate
Content(p) == [i \in DOMAIN p.slots |-> <<state(p.slots[i]), barcode_data(p.slots[i])>>]

(***************************************************************************)
(* The scan result handed to the scan worker (section 3, Scan Result) and  *)
(* the scanner object of camera_scanner.py (scanner.scan_next_frame).      *)
(***************************************************************************)
ScanResult(outcome, p, error) == [outcome |-> outcome, plate |-> p, error |-> error]

success(sr) == sr.outcome # "AlignmentFailed"
already_scanned(sr) == sr.outcome = "DuplicateOfLastReported"
any_valid_barcodes(sr) == success(sr) /\ num_valid_barcodes(sr.plate) > 0
any_new_barcodes(sr) == success(sr) /\ AnyNewBarcodes(sr.plate)

\* the outcome tag of an aligned frame: r is the remembered reported plate,
\* c the merged candidate
Classify(r, c) ==
    IF r # None /\ has_slots_in_common(r, c) THEN "DuplicateOfLastReported"
    ELSE IF FullyResolved(c) /\ AnyNewBarcodes(c) THEN "NewBarcodesFound"
    ELSE "PartialProgress"

\* One frame through the scanner: p is the session's plate (or None), r the
\* remembered reported plate (or None).  A frame that fails to align changes
\* neither (step 6); an aligned frame replaces the session's plate by the merge
\* and, when it is reportable, the remembered plate.
scan_next_frame(p, r, aligned, dec) ==
    IF ~aligned
    THEN [result |-> ScanResult("AlignmentFailed", p, "No plate detected"),
          plate |-> p, reported |-> r, decoded |-> {}]
    ELSE LET base == IF p = None THEN NewPlateOn(DOMAIN dec) ELSE p
             c == MergeFrame(base, dec)
             tag == Classify(r, c)
         IN  [result |-> ScanResult(tag, c, None),
              plate |-> c,
              reported |-> IF tag = "NewBarcodesFound" THEN c ELSE r,
              decoded |-> NeedsDecode(StartFrame(base))]

(***************************************************************************)
(* State.                                                                  *)
(***************************************************************************)
VARIABLES
    impl,              \* "camera_scanner" or "continuous": the module that runs
    now,               \* time.time(), in ticks
    task_queue,        \* frames to scan; None is the sentinel
    overlay_queue,     \* overlays for the capture worker to draw
    kill_queue,        \* CameraScanner.kill_queue
    result_queue,      \* every plate put on the result queue, in order
    cap_pc,            \* position of the capture worker
    cap,               \* the capture device: "closed", "ok" or "dead" (its reads fail)
    frame,             \* capture worker: the frame last read (None: read failed)
    last_time,         \* capture worker: time of the last enqueue
    latest_overlay,    \* capture worker: the overlay it draws
    scan_pc,           \* position of the scan worker
    last_plate_time,   \* _scanner_worker: time of the last aligned frame
    plate,             \* the scanner object's session plate, or None
    reported,          \* the scanner object's remembered reported plate, or None
    last_plate,        \* scanner_worker (continuous.py) local
    last_full_plate,   \* scanner_worker (continuous.py) local
    frame_contains_barcodes, \* scanner_worker (continuous.py) local
    kill_pc,           \* position of the caller of CameraScanner.kill()
    outcome,           \* outcome tag of the frame last scanned
    decoded,           \* slots the decode capability was invoked for in that frame
    enq_times,         \* the times at which frames were put on task_queue, in order
    overlay_puts,      \* how many overlays the scan worker has put so far
    slot,              \* a Slot object driven directly through its methods
    slot_call,         \* the method last called on it, with its argument and result
    session,           \* a scanner object fed a given sequence of frames
    detector           \* a remembered plate, a candidate and their comparison

queues == <<task_queue, overlay_queue, kill_queue, result_queue>>
capture_vars == <<cap_pc, cap, frame, last_time, latest_overlay>>
camera_scan_vars == <<last_plate_time, plate, reported>>
continuous_scan_vars == <<last_plate, last_full_plate, frame_contains_barcodes>>
history == <<outcome, decoded, enq_times, overlay_puts>>
\* the objects exercised on their own, outside the pipeline
unit_vars == <<slot, slot_call, session, detector>>
pipeline_vars == <<impl, now, queues, capture_vars, scan_pc, camera_scan_vars,
                   continuous_scan_vars, kill_pc, history>>
vars == <<pipeline_vars, unit_vars>>

\* an overlay object; id tells the objects apart: the initial overlay of the
\* capture worker has id 0, the n-th overlay the scan worker puts has id n
Overlay(kind, id) == [kind |-> kind, id |-> id]
\* the overlays of the given kinds, put after n earlier ones
Overlays(kinds, n) == [k \in 1..Len(kinds) |-> Overlay(kinds[k], n + k)]

Frame == [image |-> "frame"]

PipelineInit ==
    /\ impl \in {"camera_scanner", "continuous"}
    /\ now = 0
    /\ task_queue = <<>>
    /\ overlay_queue = <<>>
    /\ kill_queue = <<>>
    /\ result_queue = <<>>
    /\ cap_pc = "init"
    /\ cap = "closed"
    /\ frame = None
    /\ last_time = 0
    /\ latest_overlay = Overlay("unset", 0)
    /\ scan_pc = "init"
    /\ last_plate_time = 0
    /\ plate = None
    /\ reported = None
    /\ last_plate = None
    /\ last_full_plate = None
    /\ frame_contains_barcodes = FALSE
    /\ kill_pc = "idle"
    /\ outcome = "none"
    /\ decoded = {}
    /\ enq_times = <<>>
    /\ overlay_puts = 0

UnitIdle ==
    /\ slot = None
    /\ slot_call = [op |-> "none"]
    /\ session = None
    /\ detector = None

Init == PipelineInit /\ UnitIdle

(***************************************************************************)
(* The clock.  It advances by one tick, or by one long step that exceeds   *)
(* the no-plate grace period; a run holds at most MaxTicks single ticks    *)
(* and MaxLongTicks long steps.                                            *)
(***************************************************************************)
LongTick == NoPuckTicks + 1

Tick ==
    /\ \E d \in {1, LongTick} :
         /\ d = 1 => now % LongTick < MaxTicks
         /\ d = LongTick => now \div LongTick < MaxLongTicks
         /\ now' = now + d
    /\ UNCHANGED <<impl, queues, capture_vars, scan_pc, camera_scan_vars,
                   continuous_scan_vars, kill_pc, history, unit_vars>>

(***************************************************************************)
(* camera_scanner.py: CameraScanner.kill()                                 *)
(***************************************************************************)
kill_put_kill ==
    /\ impl = "camera_scanner"
    /\ kill_pc = "idle"
    /\ kill_queue' = Append(kill_queue, None)
    /\ kill_pc' = "task_put"
    /\ UNCHANGED <<impl, now, task_queue, overlay_queue, result_queue,
                   capture_vars, scan_pc, camera_scan_vars, continuous_scan_vars,
                   history, unit_vars>>

kill_put_task ==
    /\ kill_pc = "task_put"
    /\ task_queue' = Append(task_queue, None)
    /\ kill_pc' = "done"
    /\ UNCHANGED <<impl, now, overlay_queue, kill_queue, result_queue,
                   capture_vars, scan_pc, camera_scan_vars, continuous_scan_vars,
                   history, unit_vars>>

(***************************************************************************)
(* camera_scanner.py: _capture_worker                                      *)
(***************************************************************************)
capture_rest == <<impl, now, scan_pc, camera_scan_vars, continuous_scan_vars,
                  kill_pc, outcome, decoded, overlay_puts, unit_vars>>

\* what VideoCapture(n) yields for a device that does or does not deliver frames
VideoCapture(delivers) == IF delivers THEN "ok" ELSE "dead"

\* lines 68-86: open the configured camera; when its first read fails open
\* device 0 instead, without a second test
CW_init ==
    /\ impl = "camera_scanner"
    /\ cap_pc = "init"
    /\ \E configured_delivers \in BOOLEAN, zero_delivers \in BOOLEAN :
         LET first == VideoCapture(configured_delivers)
             read_ok == first = "ok"
         IN  cap' = IF ~read_ok THEN VideoCapture(zero_delivers) ELSE first
    /\ latest_overlay' = Overlay("Overlay0", 0)
    /\ last_time' = now
    /\ cap_pc' = "loop"
    /\ UNCHANGED <<queues, frame, enq_times, capture_rest>>

\* lines 88-90: while kill_queue.empty(): read_ok, frame = cap.read()
CW_read ==
    /\ impl = "camera_scanner"
    /\ cap_pc = "loop"
    /\ IF kill_queue = <<>>
       THEN /\ frame' = IF cap = "ok" THEN Frame ELSE None
            /\ cap_pc' = "sample"
       ELSE /\ cap_pc' = "cleanup"
            /\ UNCHANGED frame
    /\ UNCHANGED <<queues, cap, last_time, latest_overlay, enq_times, capture_rest>>

\* line 93: the sampling test
SampleDue_le(q, t, last) == Len(q) <= Q_LIMIT /\ (t - last >= INTERVAL)

SampleDue_no_interval(q, t, last) == Len(q) < Q_LIMIT

SampleDue(q, t, last) == Len(q) < Q_LIMIT /\ (t - last >= INTERVAL)

CW_sample ==
    /\ impl = "camera_scanner"
    /\ cap_pc = "sample"
    /\ cap_pc' = IF SampleDue(task_queue, now, last_time) THEN "put" ELSE "drain"
    /\ UNCHANGED <<queues, cap, frame, last_time, latest_overlay, enq_times,
                   capture_rest>>

\* the put without the copy: whatever was read goes on the queue
CW_put_uncopied ==
    /\ impl = "camera_scanner"
    /\ cap_pc = "put"
    /\ task_queue' = Append(task_queue, frame)
    /\ last_time' = now
    /\ enq_times' = Append(enq_times, now)
    /\ cap_pc' = "drain"
    /\ UNCHANGED <<overlay_queue, kill_queue, result_queue, cap, frame,
                   latest_overlay, capture_rest>>

\* lines 95-96: frame.copy() raises on a failed read and ends the process
CW_put ==
    /\ impl = "camera_scanner"
    /\ cap_pc = "put"
    /\ IF frame = None
       THEN /\ cap_pc' = "crashed"
            /\ UNCHANGED <<task_queue, last_time, enq_times>>
       ELSE /\ task_queue' = Append(task_queue, frame)
            /\ last_time' = now
            /\ enq_times' = Append(enq_times, now)
            /\ cap_pc' = "drain"
    /\ UNCHANGED <<overlay_queue, kill_queue, result_queue, cap, frame,
                   latest_overlay, capture_rest>>

\* the drain as an "if": take at most one overlay, then draw
CW_drain_once ==
    /\ impl = "camera_scanner"
    /\ cap_pc = "drain"
    /\ IF overlay_queue # <<>>
       THEN /\ latest_overlay' = Head(overlay_queue)
            /\ overlay_queue' = Tail(overlay_queue)
       ELSE UNCHANGED <<latest_overlay, overlay_queue>>
    /\ IF frame = None
       THEN cap_pc' = "crashed"
       ELSE \E exit_key \in BOOLEAN :
              cap_pc' = IF exit_key THEN "cleanup" ELSE "loop"
    /\ UNCHANGED <<task_queue, kill_queue, result_queue, cap, frame, last_time,
                   enq_times, capture_rest>>

\* lines 99-111: take the next overlay while the queue has one; once it is
\* empty draw and show the frame (which raises when the read failed) and leave
\* the loop if the exit key was pressed
CW_drain ==
    /\ impl = "camera_scanner"
    /\ cap_pc = "drain"
    /\ IF overlay_queue # <<>>
       THEN /\ latest_overlay' = Head(overlay_queue)
            /\ overlay_queue' = Tail(overlay_queue)
            /\ cap_pc' = "drain"
       ELSE /\ UNCHANGED <<latest_overlay, overlay_queue>>
            /\ IF frame = None
               THEN cap_pc' = "crashed"
               ELSE \E exit_key \in BOOLEAN :
                      cap_pc' = IF exit_key THEN "cleanup" ELSE "loop"
    /\ UNCHANGED <<task_queue, kill_queue, result_queue, cap, frame, last_time,
                   enq_times, capture_rest>>

\* the clean-up without its first line
CW_cleanup_no_sentinel ==
    /\ impl = "camera_scanner"
    /\ cap_pc = "cleanup"
    /\ cap' = "closed"
    /\ cap_pc' = "done"
    /\ UNCHANGED <<queues, frame, last_time, latest_overlay, enq_times, capture_rest>>

\* lines 114-116: put the sentinel and release the camera
CW_cleanup ==
    /\ impl = "camera_scanner"
    /\ cap_pc = "cleanup"
    /\ task_queue' = Append(task_queue, None)
    /\ cap' = "closed"
    /\ cap_pc' = "done"
    /\ UNCHANGED <<overlay_queue, kill_queue, result_queue, frame, last_time,
                   latest_overlay, enq_times, capture_rest>>

(***************************************************************************)
(* camera_scanner.py: _scanner_worker                                      *)
(***************************************************************************)
scan_rest == <<impl, now, kill_queue, capture_vars, kill_pc, enq_times, unit_vars>>

\* lines 128-139
SW_init ==
    /\ impl = "camera_scanner"
    /\ scan_pc = "init"
    /\ last_plate_time' = now
    /\ scan_pc' = "get"
    /\ UNCHANGED <<task_queue, overlay_queue, result_queue, plate, reported,
                   continuous_scan_vars, outcome, decoded, overlay_puts, scan_rest>>

\* lines 143-145: frame = task_queue.get(True); if frame is None: break
SW_get ==
    /\ impl = "camera_scanner"
    /\ scan_pc = "get"
    /\ task_queue # <<>>
    /\ task_queue' = Tail(task_queue)
    /\ scan_pc' = IF Head(task_queue) = None THEN "done" ELSE "scan"
    /\ UNCHANGED <<overlay_queue, result_queue, camera_scan_vars,
                   continuous_scan_vars, outcome, decoded, overlay_puts, scan_rest>>

\* lines 165-170: the overlay put for an aligned frame, if any
PlateOverlayFor(sr) ==
    IF already_scanned(sr) THEN <<"Scanned">>
    ELSE IF any_valid_barcodes(sr) THEN <<"Plate">>
    ELSE <<>>

\* lines 172-173: whether (plate, image) is put on the result queue
ResultPut_on_success(sr) == success(sr)

ResultPut(sr) == any_new_barcodes(sr)

\* the error overlay without the grace period
NoPlateOverlayFor_always(t, last) == <<"Error">>

\* lines 176-178: the overlay put for a frame that did not align, if any
NoPlateOverlayFor(t, last) ==
    IF t - last > NoPuckTicks THEN <<"Error">> ELSE <<>>

\* lines 148-178: scan one frame and act on the result
SW_scan ==
    /\ impl = "camera_scanner"
    /\ scan_pc = "scan"
    /\ \E aligned \in BOOLEAN, dec \in [SlotIndices -> DecodeOutcomes] :
         LET r == scan_next_frame(plate, reported, aligned, dec)
             sr == r.result
             put == IF success(sr) THEN PlateOverlayFor(sr)
                    ELSE NoPlateOverlayFor(now, last_plate_time)
         IN  /\ plate' = r.plate
             /\ overlay_queue' = overlay_queue \o Overlays(put, overlay_puts)
             /\ overlay_puts' = overlay_puts + Len(put)
             /\ reported' = r.reported
             /\ decoded' = r.decoded
             /\ outcome' = sr.outcome
             /\ IF success(sr)
                THEN /\ last_plate_time' = now
                     /\ result_queue' = IF ResultPut(sr)
                                        THEN Append(result_queue, sr.plate)
                                        ELSE result_queue
                ELSE UNCHANGED <<last_plate_time, result_queue>>
    /\ scan_pc' = "get"
    /\ UNCHANGED <<task_queue, continuous_scan_vars, scan_rest>>

(***************************************************************************)
(* continuous.py: capture_worker                                           *)
(***************************************************************************)
\* lines 54-60
CC_init ==
    /\ impl = "continuous"
    /\ cap_pc = "init"
    /\ \E camera_delivers \in BOOLEAN : cap' = VideoCapture(camera_delivers)
    /\ latest_overlay' = Overlay("OverlayNone", 0)
    /\ last_time' = now
    /\ cap_pc' = "read"
    /\ UNCHANGED <<queues, frame, enq_times, capture_rest>>

\* line 64: _, frame = cap.read()
CC_read ==
    /\ impl = "continuous"
    /\ cap_pc = "read"
    /\ frame' = IF cap = "ok" THEN Frame ELSE None
    /\ cap_pc' = "sample"
    /\ UNCHANGED <<queues, cap, last_time, latest_overlay, enq_times, capture_rest>>

\* line 67
CC_sample ==
    /\ impl = "continuous"
    /\ cap_pc = "sample"
    /\ cap_pc' = IF SampleDue(task_queue, now, last_time) THEN "put" ELSE "drain"
    /\ UNCHANGED <<queues, cap, frame, last_time, latest_overlay, enq_times,
                   capture_rest>>

\* lines 69-70
CC_put ==
    /\ impl = "continuous"
    /\ cap_pc = "put"
    /\ IF frame = None
       THEN /\ cap_pc' = "crashed"
            /\ UNCHANGED <<task_queue, last_time, enq_times>>
       ELSE /\ task_queue' = Append(task_queue, frame)
            /\ last_time' = now
            /\ enq_times' = Append(enq_times, now)
            /\ cap_pc' = "drain"
    /\ UNCHANGED <<overlay_queue, kill_queue, result_queue, cap, frame,
                   latest_overlay, capture_rest>>

\* lines 73-90: take the next overlay while the queue has one; once it is
\* empty draw and show the frame (which raises when the read failed); on the
\* exit key put the sentinel and leave the loop
CC_drain ==
    /\ impl = "continuous"
    /\ cap_pc = "drain"
    /\ IF overlay_queue # <<>>
       THEN /\ latest_overlay' = Head(overlay_queue)
            /\ overlay_queue' = Tail(overlay_queue)
            /\ cap_pc' = "drain"
            /\ UNCHANGED <<task_queue, cap>>
       ELSE /\ UNCHANGED <<latest_overlay, overlay_queue>>
            /\ IF frame = None
               THEN /\ cap_pc' = "crashed"
                    /\ UNCHANGED <<task_queue, cap>>
               ELSE \E exit_key \in BOOLEAN :
                      IF exit_key
                      THEN /\ task_queue' = Append(task_queue, None)
                           /\ cap' = "closed"
                           /\ cap_pc' = "done"
                      ELSE /\ cap_pc' = "read"
                           /\ UNCHANGED <<task_queue, cap>>
    /\ UNCHANGED <<kill_queue, result_queue, frame, last_time, enq_times,
                   capture_rest>>

(***************************************************************************)
(* continuous.py: scanner_worker, with Scanner.ScanImage and               *)
(* Scanner.ScanImageContinuous modelled by the frame merge engine.         *)
(***************************************************************************)
ScanImage(aligned, dec) ==
    IF aligned THEN MergeFrame(NewPlate, dec)
    ELSE [NewPlate EXCEPT !.scan_ok = FALSE]

ScanImageContinuous(last, aligned, dec) ==
    IF aligned
    THEN LET m == MergeFrame(last, dec)
         IN  [plate |-> m, frame_contains_barcodes |-> FrameContainsBarcodes(m)]
    ELSE [plate |-> [last EXCEPT !.scan_ok = FALSE], frame_contains_barcodes |-> FALSE]

\* lines 102-104
CS_init ==
    /\ impl = "continuous"
    /\ scan_pc = "init"
    /\ last_plate' = None
    /\ last_full_plate' = None
    /\ frame_contains_barcodes' = FALSE
    /\ scan_pc' = "get"
    /\ UNCHANGED <<task_queue, overlay_queue, result_queue, camera_scan_vars,
                   outcome, decoded, overlay_puts, scan_rest>>

\* lines 108-110
CS_get ==
    /\ impl = "continuous"
    /\ scan_pc = "get"
    /\ task_queue # <<>>
    /\ task_queue' = Tail(task_queue)
    /\ scan_pc' = IF Head(task_queue) = None THEN "done" ELSE "scan"
    /\ UNCHANGED <<overlay_queue, result_queue, camera_scan_vars,
                   continuous_scan_vars, outcome, decoded, overlay_puts, scan_rest>>

\* lines 127-129: the plate kept for the next frame
KeepPlate_always(last, p) == p

\* the plate dropped when a frame does not align
KeepPlate_reset(last, p) == IF p.scan_ok THEN p ELSE None

KeepPlate(last, p) == IF p.scan_ok THEN p ELSE last

\* the comparison without regard to the slot index
IsDuplicate_multiset(full, p) ==
    /\ full # None
    /\ \A i \in DOMAIN p.slots :
          state(p.slots[i]) = VALID =>
             \E j \in DOMAIN full.slots :
                barcode_data(full.slots[j]) = barcode_data(p.slots[i])

\* line 130
IsDuplicate(full, p) == full # None /\ has_slots_in_common(full, p)

\* lines 121-144
CS_scan ==
    /\ impl = "continuous"
    /\ scan_pc = "scan"
    /\ \E aligned \in BOOLEAN, dec \in [SlotIndices -> DecodeOutcomes] :
         LET first == last_plate = None
             cont == ScanImageContinuous(last_plate, aligned, dec)
             p == IF first THEN ScanImage(aligned, dec) ELSE cont.plate
             fcb == IF first THEN frame_contains_barcodes
                    ELSE cont.frame_contains_barcodes
             dup == IsDuplicate(last_full_plate, p)
             store == p.scan_ok /\ ~dup /\ is_full_valid(p)
             put == IF p.scan_ok /\ fcb
                    THEN <<IF dup THEN "Scanned" ELSE "Plate">>
                    ELSE <<>>
         IN  /\ frame_contains_barcodes' = fcb
             /\ last_plate' = KeepPlate(last_plate, p)
             /\ result_queue' = IF store THEN Append(result_queue, p) ELSE result_queue
             /\ last_full_plate' = IF store THEN p ELSE last_full_plate
             /\ overlay_queue' = overlay_queue \o Overlays(put, overlay_puts)
             /\ overlay_puts' = overlay_puts + Len(put)
             /\ outcome' = IF ~p.scan_ok THEN "AlignmentFailed"
                           ELSE IF dup THEN "DuplicateOfLastReported"
                           ELSE IF store THEN "NewBarcodesFound"
                           ELSE "PartialProgress"
             /\ decoded' = IF aligned
                           THEN NeedsDecode(StartFrame(IF first THEN NewPlate ELSE last_plate))
                           ELSE {}
    /\ scan_pc' = "get"
    /\ UNCHANGED <<task_queue, camera_scan_vars, scan_rest>>

(***************************************************************************)
(* The system.                                                             *)
(***************************************************************************)
CaptureStep ==
    \/ CW_init \/ CW_read \/ CW_sample \/ CW_put \/ CW_drain \/ CW_cleanup
    \/ CC_init \/ CC_read \/ CC_sample \/ CC_put \/ CC_drain

ScanStep == SW_init \/ SW_get \/ SW_scan \/ CS_init \/ CS_get \/ CS_scan

Next ==
    \/ Tick
    \/ kill_put_kill \/ kill_put_task
    \/ CW_init \/ CW_read \/ CW_sample \/ CW_put \/ CW_drain \/ CW_cleanup
    \/ SW_init \/ SW_get \/ SW_scan
    \/ CC_init \/ CC_read \/ CC_sample \/ CC_put \/ CC_drain
    \/ CS_init \/ CS_get \/ CS_scan

Spec == Init /\ [][Next]_vars

\* Each worker is its own process and kill() runs to completion once called;
\* when kill() is called, and how time passes, is up to the environment.
FairSpec ==
    /\ Spec
    /\ WF_vars(CaptureStep)
    /\ WF_vars(ScanStep)
    /\ WF_vars(kill_put_task)

(***************************************************************************)
(* Vocabulary of the properties.                                           *)
(***************************************************************************)
\* the plate the session retains between frames
CurrentPlate == IF impl = "camera_scanner" THEN plate ELSE last_plate
\* this step is the scan worker finishing a frame
FrameScanned == scan_pc = "scan" /\ scan_pc' = "get"
Aligned(tag) == tag \in {"DuplicateOfLastReported", "PartialProgress", "NewBarcodesFound"}
ResolvedCount(p) ==
    Cardinality({i \in SlotIndices : state(p.slots[i]) \in {VALID, UNREADABLE, EMPTY}})
\* how often a plate of content c was put on the result queue
TimesReported(c) ==
    Cardinality({k \in 1..Len(result_queue) : Content(result_queue[k]) = c})
NumRealFrames(q) == Cardinality({k \in 1..Len(q) : q[k] # None})
HasSentinel(q) == \E k \in 1..Len(q) : q[k] = None
Ceil(a, b) == (a + b - 1) \div b
\* frames put on the task queue at a time t with s <= t < s + T
EnqueuedIn(s, T) ==
    Cardinality({k \in 1..Len(enq_times) : s <= enq_times[k] /\ enq_times[k] < s + T})
EnqueueTimes == {enq_times[k] : k \in 1..Len(enq_times)}

(***************************************************************************)
(* Properties.                                                             *)
(***************************************************************************)

\* C1: once a slot of the session's plate is Valid, every later step leaves it
\* Valid with the same data, and no later frame invokes the decode capability
\* for that slot index.
C1_ValidSlotsNeverDecodedAgain ==
    [][\A i \in SlotIndices :
          (CurrentPlate # None /\ state(CurrentPlate.slots[i]) = VALID) =>
             /\ CurrentPlate' # None
             /\ state(CurrentPlate'.slots[i]) = VALID
             /\ barcode_data(CurrentPlate'.slots[i]) = barcode_data(CurrentPlate.slots[i])
             /\ FrameScanned => i \notin decoded']_vars

\* an aligned frame was merged into a plate that already held a Valid slot, and
\* the decoder was invoked for another slot but not for that one
C1_Witness ==
    /\ CurrentPlate # None
    /\ Aligned(outcome)
    /\ \E i \in SlotIndices :
         /\ state(CurrentPlate.slots[i]) = VALID
         /\ CurrentPlate.slots[i].total_frames >= 2
         /\ i \notin decoded
    /\ decoded # {}

\* C2: a frame classified as a duplicate of the last reported plate puts
\* nothing on the result queue.
C2_DuplicatePutsNoResult ==
    [][(FrameScanned /\ outcome' = "DuplicateOfLastReported") =>
          result_queue' = result_queue]_vars

\* a frame was classified duplicate after a plate had been reported, and its
\* "already scanned" overlay is in flight
C2_Witness ==
    /\ outcome = "DuplicateOfLastReported"
    /\ result_queue # <<>>
    /\ overlay_queue # <<>>
    /\ overlay_queue[Len(overlay_queue)].kind = "Scanned"

\* C3: every plate put on the result queue is fully resolved (no slot in
\* NoResult).
C3_ResultsFullyResolved ==
    \A k \in 1..Len(result_queue) : FullyResolved(result_queue[k])

C5_AlignmentLossKeepsProgress ==
    [][FrameScanned =>
          IF outcome' = "AlignmentFailed"
          THEN /\ CurrentPlate' = CurrentPlate
               /\ reported' = reported
               /\ last_full_plate' = last_full_plate
          ELSE \A i \in SlotIndices :
                 (CurrentPlate # None /\ state(CurrentPlate.slots[i]) = VALID) =>
                    /\ state(CurrentPlate'.slots[i]) = VALID
                    /\ barcode_data(CurrentPlate'.slots[i])
                         = barcode_data(CurrentPlate.slots[i])]_vars

\* a frame failed to align after an earlier frame had decoded a barcode
C5_Witness ==
    /\ outcome = "AlignmentFailed"
    /\ CurrentPlate # None
    /\ \E i \in SlotIndices : state(CurrentPlate.slots[i]) = VALID

\* C6 as stated: across an aligned frame the number of resolved slots drops by
\* no more than the number of slots that were Empty and were re-attempted into
\* NoResult.
C6_ResolvedCountMonotonic ==
    [][(FrameScanned /\ CurrentPlate # None /\ Aligned(outcome')) =>
          ResolvedCount(CurrentPlate') >=
             ResolvedCount(CurrentPlate)
             - Cardinality({i \in SlotIndices :
                              /\ state(CurrentPlate.slots[i]) = EMPTY
                              /\ state(CurrentPlate'.slots[i]) = NO_RESULT})]_vars

\* C6 amended: the number of resolved slots drops by no more than the number
\* of slots that were Empty or Unreadable and were re-attempted into NoResult
\* (a Valid slot never regresses).
C6_ResolvedCountMonotonicButRetried ==
    [][(FrameScanned /\ CurrentPlate # None /\ Aligned(outcome')) =>
          ResolvedCount(CurrentPlate') >=
             ResolvedCount(CurrentPlate)
             - Cardinality({i \in SlotIndices :
                              /\ state(CurrentPlate.slots[i]) \in {EMPTY, UNREADABLE}
                              /\ state(CurrentPlate'.slots[i]) = NO_RESULT})]_vars

\* a later aligned frame turned a slot that was Unreadable in the reported
\* plate into NoResult, while a Valid slot kept its barcode
C6_Witness ==
    /\ plate # None
    /\ reported # None
    /\ Aligned(outcome)
    /\ \E i, j \in SlotIndices :
         /\ state(reported.slots[i]) = VALID
         /\ state(plate.slots[i]) = VALID
         /\ state(reported.slots[j]) = UNREADABLE
         /\ state(plate.slots[j]) = NO_RESULT

\* C7: the task queue never holds more than Q_LIMIT real frames, and the
\* capture worker is about to enqueue only while the queue holds no real frame
\* and INTERVAL has passed since its last enqueue.
C7_FrameQueueBound ==
    /\ NumRealFrames(task_queue) <= Q_LIMIT
    /\ cap_pc = "put" => /\ NumRealFrames(task_queue) = 0
                         /\ now - last_time >= INTERVAL

\* kill() has put its sentinel behind a frame the scan worker has not taken yet
C7_Witness ==
    /\ NumRealFrames(task_queue) = 1
    /\ Len(task_queue) >= 2
    /\ kill_pc = "done"
    /\ scan_pc = "scan"

\* C8: the frames enqueued in any window [s, s+T) number at most
\* ceil(T / INTERVAL) (windows starting at time 0 or at an enqueue; any other
\* window holds no more than the one starting at its first enqueue), and a frame
\* captured while the queue is occupied is dropped: the queue is left as it was.
C8_LoadShedding ==
    [][/\ \A s \in EnqueueTimes' \cup {0} : \A T \in 0..(now' - s + 1) :
             EnqueuedIn(s, T)' <= Ceil(T, INTERVAL)
       /\ (cap_pc = "sample" /\ cap_pc' # "sample" /\ Len(task_queue) >= Q_LIMIT) =>
             /\ cap_pc' = "drain"
             /\ task_queue' = task_queue]_vars

\* the scan worker is busy with the first frame, the second waits in the queue,
\* and the capture worker holds a third frame it is about to drop
C8_Witness ==
    /\ scan_pc = "scan"
    /\ NumRealFrames(task_queue) = 1
    /\ Len(enq_times) = 2
    /\ cap_pc = "sample"
    /\ frame # None

\* C9: once kill() has been called or the exit key pressed, the capture worker
\* ends and the scan worker dequeues a sentinel and exits.
C9_Termination ==
    (kill_pc # "idle" \/ cap_pc \in {"cleanup", "done"})
        ~> (scan_pc = "done" /\ cap_pc \in {"done", "crashed"})

\* both workers have ended after kill() was called while a frame was queued
C9_Witness ==
    /\ kill_pc = "done"
    /\ scan_pc = "done"
    /\ cap_pc = "done"
    /\ Len(enq_times) >= 1

\* C10: when the capture worker has ended because the camera delivers no
\* frame, a sentinel is on the task queue or the scan worker has exited.
C10_DeviceFailureSignalsScanner ==
    cap_pc = "crashed" => (HasSentinel(task_queue) \/ scan_pc = "done")

\* overlays the capture worker has taken off the overlay queue so far
DrainedSoFar == overlay_puts - Len(overlay_queue)

\* C11: the capture worker takes overlays off the queue oldest first and keeps
\* the one it took last, so the overlay it holds is always the most recently
\* put among those taken so far (the initial overlay when none was taken); it
\* goes on to draw only once the queue is empty, and drawing does not change
\* the overlay it holds.
C11_OverlayDrainLatest ==
    [][/\ latest_overlay'.id = DrainedSoFar'
       /\ Len(overlay_queue') < Len(overlay_queue) =>
             /\ cap_pc = "drain" /\ cap_pc' = "drain"
             /\ latest_overlay' = Head(overlay_queue)
             /\ overlay_queue' = Tail(overlay_queue)
       /\ (cap_pc = "drain" /\ cap_pc' # "drain") =>
             /\ overlay_queue = <<>>
             /\ latest_overlay' = latest_overlay
             /\ latest_overlay.id = overlay_puts]_vars

\* in the middle of a drain: the capture worker has taken one overlay of the
\* scan worker and a newer one is still queued, which will replace it before
\* anything is drawn
C11_Witness ==
    /\ cap_pc = "drain"
    /\ latest_overlay.id >= 1
    /\ overlay_queue # <<>>

(***************************************************************************)
(* One scanner object fed a sequence of frames, as the loop body of        *)
(* _scanner_worker does (camera_scanner.py, lines 154-173), on a plate of  *)
(* ScenarioSlots slots.  session records the frames given and, per frame,  *)
(* the outcome, the snapshot, the slots decoded and whether a result was   *)
(* put.                                                                    *)
(***************************************************************************)
ScenarioSlots == 8
MaxScenarioFrames == 3

Frame1 == <<"A", "NoResult", "NoResult", "NoResult", "NoResult", "NoResult",
            "NoResult", "NoResult">>
\* the decoder would find nothing in slot 1 of the later frames, were it asked
Frame2 == <<"NoResult", "Empty", "Empty", "B", "Unreadable", "Empty", "Empty", "C">>
AllEmpty == [i \in 1..ScenarioSlots |-> "Empty"]
AllNoResult == [i \in 1..ScenarioSlots |-> "NoResult"]
ScenarioDecodes == {Frame1, Frame2, AllEmpty, AllNoResult}

\* a frame given to the scanner: whether its geometry aligns, and what the
\* decoder answers per slot
FrameInput(aligned, dec) == [aligned |-> aligned, dec |-> dec]
ScenarioInputs ==
    {FrameInput(TRUE, dec) : dec \in ScenarioDecodes}
        \cup {FrameInput(FALSE, AllNoResult)}

SessionInit ==
    /\ PipelineInit
    /\ impl = "camera_scanner"
    /\ slot = None
    /\ slot_call = [op |-> "none"]
    /\ detector = None
    /\ session = [plate |-> None, reported |-> None, frames |-> <<>>,
                  outcomes |-> <<>>, snapshots |-> <<>>, decoded |-> <<>>,
                  put |-> <<>>]

\* lines 154-173 for one frame
SessionFrame ==
    /\ session # None
    /\ Len(session.frames) < MaxScenarioFrames
    /\ \E in \in ScenarioInputs :
         LET r == scan_next_frame(session.plate, session.reported, in.aligned, in.dec)
             sr == r.result
         IN  session' = [plate |-> r.plate,
                         reported |-> r.reported,
                         frames |-> Append(session.frames, in),
                         outcomes |-> Append(session.outcomes, sr.outcome),
                         snapshots |-> Append(session.snapshots, r.plate),
                         decoded |-> Append(session.decoded, r.decoded),
                         put |-> Append(session.put, ResultPut(sr))]
    /\ UNCHANGED <<pipeline_vars, slot, slot_call, detector>>

SessionSpec == SessionInit /\ [][SessionFrame]_vars

\* the first n frames given are the given ones
FramesGiven(fs) ==
    /\ Len(session.frames) >= Len(fs)
    /\ \A k \in 1..Len(fs) : session.frames[k] = FrameInput(TRUE, fs[k])
SlotIs(p, i, st, data) ==
    state(p.slots[i]) = st /\ (st = VALID => barcode_data(p.slots[i]) = data)

\* C12: on an 8-slot plate, frame 1 aligning with [Valid(A), NoResult x7] gives
\* PartialProgress with one Valid slot; frame 2 then leaves slot 1 undecoded and
\* resolves slots 2-8 to Empty, Empty, Valid(B), Unreadable, Empty, Empty,
\* Valid(C), giving NewBarcodesFound with three Valid slots, fully resolved;
\* frame 3 with the same results gives DuplicateOfLastReported and puts no
\* result.
C12_EndToEndScenario ==
    /\ FramesGiven(<<Frame1>>) =>
          /\ session.outcomes[1] = "PartialProgress"
          /\ num_valid_barcodes(session.snapshots[1]) = 1
          /\ SlotIs(session.snapshots[1], 1, VALID, "A")
    /\ FramesGiven(<<Frame1, Frame2>>) =>
          /\ 1 \notin session.decoded[2]
          /\ session.decoded[2] = 2..ScenarioSlots
          /\ session.outcomes[2] = "NewBarcodesFound"
          /\ num_valid_barcodes(session.snapshots[2]) = 3
          /\ FullyResolved(session.snapshots[2])
          /\ SlotIs(session.snapshots[2], 1, VALID, "A")
          /\ SlotIs(session.snapshots[2], 2, EMPTY, "")
          /\ SlotIs(session.snapshots[2], 3, EMPTY, "")
          /\ SlotIs(session.snapshots[2], 4, VALID, "B")
          /\ SlotIs(session.snapshots[2], 5, UNREADABLE, "")
          /\ SlotIs(session.snapshots[2], 6, EMPTY, "")
          /\ SlotIs(session.snapshots[2], 7, EMPTY, "")
          /\ SlotIs(session.snapshots[2], 8, VALID, "C")
          /\ session.put[2]
    /\ FramesGiven(<<Frame1, Frame2, Frame2>>) =>
          /\ session.outcomes[3] = "DuplicateOfLastReported"
          /\ ~session.put[3]
          /\ Content(session.snapshots[3]) = Content(session.snapshots[2])

\* the three frames of the scenario have been scanned
C12_Witness ==
    /\ session # None
    /\ FramesGiven(<<Frame1, Frame2, Frame2>>)
    /\ session.outcomes = <<"PartialProgress", "NewBarcodesFound",
                            "DuplicateOfLastReported">>

(***************************************************************************)
(* The duplicate test of scanner_worker (continuous.py, line 130) applied  *)
(* to a remembered plate and a candidate.  Both are plates as one aligned  *)
(* frame leaves them; the remembered plate may also be absent.             *)
(***************************************************************************)
DetectorSlots == 2
DetectorData == {"A", "B"}
DetectorDecodes ==
    [1..DetectorSlots -> DetectorData \cup {"Unreadable", "Empty", "NoResult"}]
DetectorPlates == {MergeFrame(NewPlateOn(1..DetectorSlots), dec) : dec \in DetectorDecodes}

DetectorInit ==
    /\ PipelineInit
    /\ impl = "continuous"
    /\ slot = None
    /\ slot_call = [op |-> "none"]
    /\ session = None
    /\ \E r \in DetectorPlates \cup {None}, c \in DetectorPlates :
         detector = [remembered |-> r, candidate |-> c, compared |-> FALSE,
                     duplicate |-> FALSE]

Detect ==
    /\ detector # None
    /\ ~detector.compared
    /\ detector' = [detector EXCEPT
                       !.compared = TRUE,
                       !.duplicate = IsDuplicate(detector.remembered, detector.candidate)]
    /\ UNCHANGED <<pipeline_vars, slot, slot_call, session>>

DetectorSpec == DetectorInit /\ [][Detect]_vars

\* slot i of plate p holds a Valid barcode
ValidAt(p, i) == state(p.slots[i]) = VALID
\* the decoded data slot i of plate p holds
DataAt(p, i) == p.slots[i].barcode.data

MaxSlotFrames == 2
Coord == [x |-> "x", y |-> "y"]

SlotInit ==
    /\ PipelineInit
    /\ impl = "camera_scanner"
    /\ session = None
    /\ detector = None
    /\ \E number \in SlotIndices : slot = Slot(number)
    /\ slot_call = [op |-> "__init__"]

slot_rest == <<pipeline_vars, session, detector>>

Slot_new_frame ==
    /\ slot # None
    /\ slot.total_frames < MaxSlotFrames
    /\ slot' = new_frame(slot)
    /\ slot_call' = [op |-> "new_frame"]
    /\ UNCHANGED slot_rest

Slot_set_bounds ==
    /\ slot # None
    /\ slot' = set_bounds(slot, Region)
    /\ slot_call' = [op |-> "set_bounds"]
    /\ UNCHANGED slot_rest

Slot_set_barcode_position ==
    /\ slot # None
    /\ slot' = set_barcode_position(slot, Coord)
    /\ slot_call' = [op |-> "set_barcode_position"]
    /\ UNCHANGED slot_rest

Slot_set_barcode ==
    /\ slot # None
    /\ \E barcode \in Barcodes \cup {None} :
         /\ slot' = set_barcode(slot, barcode)
         /\ slot_call' = [op |-> "set_barcode", barcode |-> barcode]
    /\ UNCHANGED slot_rest

Slot_set_empty ==
    /\ slot # None
    /\ slot' = set_empty(slot)
    /\ slot_call' = [op |-> "set_empty"]
    /\ UNCHANGED slot_rest

Slot_set_no_result ==
    /\ slot # None
    /\ slot' = set_no_result(slot)
    /\ slot_call' = [op |-> "set_no_result"]
    /\ UNCHANGED slot_rest

Slot_state ==
    /\ slot # None
    /\ slot_call' = [op |-> "state", state |-> state(slot)]
    /\ UNCHANGED <<slot, slot_rest>>

Slot_contains_barcode ==
    /\ slot # None
    /\ slot_call' = [op |-> "contains_barcode", contains |-> contains_barcode(slot)]
    /\ UNCHANGED <<slot, slot_rest>>

SlotNext ==
    \/ Slot_new_frame \/ Slot_set_bounds \/ Slot_set_barcode_position
    \/ Slot_set_barcode \/ Slot_set_empty \/ Slot_set_no_result
    \/ Slot_state \/ Slot_contains_barcode

SlotSpec == SlotInit /\ [][SlotNext]_vars

\* the status the precedence rule Empty > Unreadable > Valid > NoResult gives
StatusByPrecedence(s) ==
    CASE s.empty -> EMPTY
      [] ~s.empty /\ s.barcode # None /\ s.barcode.is_unreadable -> UNREADABLE
      [] ~s.empty /\ s.barcode # None /\ ~s.barcode.is_unreadable
            /\ s.barcode.is_valid -> VALID
      [] OTHER -> NO_RESULT

\* C14: state() changes nothing and returns Empty when the empty flag is set,
\* else Unreadable for a stored unreadable barcode, else Valid for a stored
\* valid barcode, else NoResult; contains_barcode() changes nothing and is true
\* exactly when state() is Unreadable or Valid.
C14_StatePrecedence ==
    [][/\ state(slot') = StatusByPrecedence(slot')
       /\ slot'.empty => state(slot') = EMPTY
       /\ contains_barcode(slot') <=> state(slot') \in {UNREADABLE, VALID}
       /\ slot_call'.op = "state" =>
             slot' = slot /\ slot_call'.state = StatusByPrecedence(slot)
       /\ slot_call'.op = "contains_barcode" =>
             /\ slot' = slot
             /\ slot_call'.contains <=> StatusByPrecedence(slot) \in {UNREADABLE, VALID}]_vars

\* state() was called on a slot that was set empty in the frame in which a
\* barcode had been set on it, and returned Empty
C14_Witness ==
    /\ slot # None
    /\ slot_call.op = "state"
    /\ slot_call.state = EMPTY
    /\ barcode_this_frame(slot)

\* C15: a call set_barcode(None) leaves state() and the decoded data as they
\* were and does not set the per-frame flag.
C15_SetBarcodeNoneKeepsStatus ==
    [][(slot_call'.op = "set_barcode" /\ slot_call'.barcode = None) =>
          /\ state(slot') = state(slot)
          /\ barcode_data(slot') = barcode_data(slot)
          /\ barcode_this_frame(slot') = barcode_this_frame(slot)]_vars

\* C16: a slot whose empty flag is set stores no barcode, so a slot in state
\* Empty has no decoded data; a slot in state Valid stores a valid barcode.
C16_SlotDataInvariant ==
    slot # None =>
        /\ ~(slot.empty /\ slot.barcode # None)
        /\ state(slot) = EMPTY => slot.barcode = None
        /\ state(slot) = VALID =>
              /\ slot.barcode # None
              /\ slot.barcode.is_valid
              /\ slot.barcode.data \in Data

\* set_empty() was called on a slot in the frame in which a barcode had been
\* set on it
C16_Witness ==
    /\ slot # None
    /\ slot_call.op = "set_empty"
    /\ barcode_this_frame(slot)
    /\ state(slot) = EMPTY

\* C17: new_frame() adds one to the frame counter, clears the per-frame flag
\* and leaves the slot number, bounds, barcode position, stored barcode, empty
\* flag and state() as they were.
C17_NewFrameEffect ==
    [][slot_call'.op = "new_frame" =>
          /\ slot'.total_frames = slot.total_frames + 1
          /\ ~barcode_this_frame(slot')
          /\ slot'.number = slot.number
          /\ slot'.bounds = slot.bounds
          /\ slot'.barcode_position = slot.barcode_position
          /\ slot'.barcode = slot.barcode
          /\ slot'.empty = slot.empty
          /\ state(slot') = state(slot)
          /\ barcode_data(slot') = barcode_data(slot)]_vars

\* new_frame() was called on a Valid slot with bounds and barcode position set,
\* whose barcode had been set in the frame before
C17_Witness ==
    /\ slot # None
    /\ slot_call.op = "new_frame"
    /\ state(slot) = VALID
    /\ slot.bounds # None
    /\ slot.barcode_position # None
    /\ slot.total_frames = 2

(***************************************************************************)
(* Properties of the scan worker.                                          *)
(***************************************************************************)
\* this step puts a "no plate" error overlay
ErrorOverlayPut ==
    /\ overlay_puts' = overlay_puts + 1
    /\ overlay_queue' = Append(overlay_queue, Overlay("Error", overlay_puts'))
NumSentinels(q) == Cardinality({k \in 1..Len(q) : q[k] = None})

\* C18: last_plate_time is the time of the last aligned frame (the start of the
\* scan worker while none has aligned).  A frame that fails to align puts the
\* error overlay exactly when more than NO_PUCK_TIME has passed since then and
\* puts nothing otherwise; no other step puts that overlay; and after a failed
\* frame the worker goes back to wait for the next frame.
C18_NoPlateSignalTiming ==
    [][/\ (FrameScanned /\ impl = "camera_scanner" /\ outcome' = "AlignmentFailed") =>
             /\ IF now - last_plate_time > NoPuckTicks
                THEN ErrorOverlayPut
                ELSE UNCHANGED <<overlay_queue, overlay_puts>>
             /\ last_plate_time' = last_plate_time
             /\ scan_pc' = "get"
       /\ (FrameScanned /\ impl = "camera_scanner" /\ Aligned(outcome')) =>
             last_plate_time' = now
       /\ ~FrameScanned => last_plate_time' = last_plate_time \/ scan_pc = "init"
       /\ ErrorOverlayPut =>
             /\ FrameScanned
             /\ outcome' = "AlignmentFailed"
             /\ now - last_plate_time > NoPuckTicks]_vars

\* a plate was aligned, then a frame failed to align more than the grace period
\* later and its error overlay is queued; the worker waits for the next frame
C18_Witness ==
    /\ outcome = "AlignmentFailed"
    /\ plate # None
    /\ now - last_plate_time > NoPuckTicks
    /\ overlay_queue # <<>>
    /\ overlay_queue[Len(overlay_queue)].kind = "Error"
    /\ scan_pc = "get"

\* C19: once the session has a plate it always has one, and the plate is only
\* ever changed by merging an aligned frame into it: a frame that fails to
\* align leaves it as it is, however long alignment has been lost, and an
\* aligned frame continues it (frame counter plus one, every slot that is not
\* decoded again kept as it was, every Valid slot kept).
C19_NoAutomaticReset ==
    [][CurrentPlate # None =>
          /\ CurrentPlate' # None
          /\ ~FrameScanned => CurrentPlate' = CurrentPlate
          /\ (FrameScanned /\ outcome' = "AlignmentFailed") =>
                CurrentPlate' = CurrentPlate
          /\ (FrameScanned /\ Aligned(outcome')) =>
                \A i \in SlotIndices :
                   /\ CurrentPlate'.slots[i].total_frames
                         = CurrentPlate.slots[i].total_frames + 1
                   /\ i \notin decoded' =>
                         /\ state(CurrentPlate'.slots[i]) = state(CurrentPlate.slots[i])
                         /\ CurrentPlate'.slots[i].barcode = CurrentPlate.slots[i].barcode
                   /\ state(CurrentPlate.slots[i]) = VALID => i \notin decoded']_vars

\* alignment was lost for longer than the grace period (the error overlay was
\* put) and the next frame aligned again: the plate still holds the barcode
\* decoded before the loss and gained another one in this frame
C19_Witness ==
    /\ impl = "camera_scanner"
    /\ plate # None
    /\ Aligned(outcome)
    /\ \E k \in 1..Len(overlay_queue) : overlay_queue[k].kind = "Error"
    /\ \E i, j \in SlotIndices :
         /\ state(plate.slots[i]) = VALID /\ ~barcode_this_frame(plate.slots[i])
         /\ state(plate.slots[j]) = VALID /\ barcode_this_frame(plate.slots[j])
         /\ plate.slots[i].total_frames = 2

\* C20: the scan worker ends only by taking a None off the task queue; after
\* scanning a frame, whatever the outcome, it waits for the next one; what it
\* scans is never a None; and the capture worker's frame put never adds a None
\* to the queue: a None is added only by kill(), the clean-up or the exit key.
C20_LoopEndsOnlyOnSentinel ==
    [][/\ (scan_pc' = "done" /\ scan_pc # "done") =>
             /\ scan_pc = "get"
             /\ task_queue # <<>>
             /\ Head(task_queue) = None
             /\ task_queue' = Tail(task_queue)
       /\ scan_pc = "scan" => scan_pc' \in {"scan", "get"}
       /\ (scan_pc = "get" /\ scan_pc' = "scan") => Head(task_queue) # None
       /\ (cap_pc = "put" /\ cap_pc' # "put") =>
             NumSentinels(task_queue') = NumSentinels(task_queue)
       /\ NumSentinels(task_queue') > NumSentinels(task_queue) =>
             \/ kill_pc = "task_put" /\ kill_pc' = "done"
             \/ cap_pc \in {"cleanup", "drain"} /\ cap_pc' = "done"]_vars

\* the scan worker scanned a frame that did not align, went back to wait for
\* the next one and left its loop on the None that kill() put
C20_Witness ==
    /\ scan_pc = "done"
    /\ outcome = "AlignmentFailed"
    /\ kill_pc = "done"
    /\ task_queue = <<>>

\* C21: a new slot has the per-frame flag clear; new_frame() clears it,
\* set_barcode() with a barcode sets it, and every other call (set_bounds,
\* set_barcode_position, set_empty, set_no_result, set_barcode(None), state,
\* contains_barcode) leaves it as it was.  So barcode_this_frame() is true
\* exactly when set_barcode was called with a barcode since the most recent
\* new_frame() (since the slot was made, before the first one).
C21_PerFrameDirtyFlag ==
    [][/\ slot_call.op = "__init__" => ~barcode_this_frame(slot)
       /\ barcode_this_frame(slot') =
            IF slot_call'.op = "new_frame" THEN FALSE
            ELSE IF slot_call'.op = "set_barcode" /\ slot_call'.barcode # None THEN TRUE
            ELSE barcode_this_frame(slot)]_vars

\* in the second frame a barcode was set on the slot and then set_no_result()
\* was called: the flag is still set although the slot holds no barcode
C21_Witness ==
    /\ slot # None
    /\ slot_call.op = "set_no_result"
    /\ slot.total_frames = 2
    /\ barcode_this_frame(slot)
    /\ state(slot) = NO_RESULT

====
